---- MODULE Spec2Model ----
(***************************************************************************)
(* Model of import_azure_resource_groups.py: the batch driver (main), the  *)
(* per-resource-group fallback pipeline (process_resource_group) and the   *)
(* helpers it calls, over an explicit model of the output directory tree.  *)
(*                                                                         *)
(* Paths are tuples of path components relative to subs_folder             *)
(* (<output_root>/<subscription_id>); <<>> is subs_folder itself.  File    *)
(* contents, resource group names and path components are strings.         *)
(*                                                                         *)
(* Every external command (az, terraformer, terraform) is a step whose     *)
(* exit status and output are chosen nondeterministically.  The script     *)
(* catches no exception: the one modelled is the OSError that              *)
(* subprocess.run raises when the terraform executable, which main never   *)
(* looks for, cannot be started.  The script may be run again over the     *)
(* output root an earlier run left behind.                                 *)
(***************************************************************************)
EXTENDS Integers, Sequences, FiniteSets, TLC

(***************************************************************************)
(* Bounds of the model.                                                    *)
(***************************************************************************)
\* longest resource group listing returned by `az group list`
MaxGroups == 2
\* total number of resource groups listed over all runs of the script
MaxProcessed == 2
\* number of times consolidate_tf is applied to one directory
MaxConsolidations == 2

\* resource group names the listing draws from
Names == {"a/b", "a:b", "rg"}

\* stdout of `az group export`
ExportOutputs == {"{arm}"}

\* what a terraformer invocation that exits 0 leaves under --path:
\* relative path -> text
GenOutputs ==
    { (<<"provider.tf">> :> "p1;") @@ (<<"rg", "res.tf">> :> "r1;") @@ (<<"plan.json">> :> "j1"),
      (<<"provider.tf">> :> "p2;") }

\* what a terraformer invocation that exits non-zero leaves under --path
GenPartialOutputs == { (<<"rg", "res.tf">> :> "r0;") }

\* exit statuses of the external tools
ExitCodes == {0, 1}

(***************************************************************************)
(* Strings: Python compares str values code point by code point.           *)
(***************************************************************************)
\* the characters used by the model, in code point order
CodePoints == "\"*-./0123456789:<>?\\_abcdefghijklmnopqrstuvwxyz{|}"

RECURSIVE OrdFrom(_, _)
OrdFrom(c, k) ==
    IF k > Len(CodePoints) THEN 0
    ELSE IF SubSeq(CodePoints, k, k) = c THEN k
    ELSE OrdFrom(c, k + 1)

ord(c) == OrdFrom(c, 1)

RECURSIVE StrLessFrom(_, _, _)
StrLessFrom(a, b, k) ==
    IF k > Len(b) THEN FALSE
    ELSE IF k > Len(a) THEN TRUE
    ELSE IF SubSeq(a, k, k) = SubSeq(b, k, k) THEN StrLessFrom(a, b, k + 1)
    ELSE ord(SubSeq(a, k, k)) < ord(SubSeq(b, k, k))

\* a < b for two str values
StrLess(a, b) == StrLessFrom(a, b, 1)

RECURSIVE PartsLessFrom(_, _, _)
PartsLessFrom(p, q, k) ==
    IF k > Len(q) THEN FALSE
    ELSE IF k > Len(p) THEN TRUE
    ELSE IF p[k] = q[k] THEN PartsLessFrom(p, q, k + 1)
    ELSE StrLess(p[k], q[k])

\* p < q for two Path values: their lists of parts are compared
PathLess(p, q) == PartsLessFrom(p, q, 1)

\* str(path) of a relative path: the parts joined with "/"
RECURSIVE PathStr(_)
PathStr(p) ==
    IF Len(p) = 0 THEN "."
    ELSE IF Len(p) = 1 THEN p[1]
    ELSE p[1] \o "/" \o PathStr(Tail(p))

(***************************************************************************)
(* safe_name                                                               *)
(***************************************************************************)
\* the character class of INVALID_NAME_RE
INVALID_NAME_RE == {"\\", "/", ":", "*", "?", "\"", "<", ">", "|"}

RECURSIVE SubFrom(_, _)
SubFrom(name, k) ==
    IF k > Len(name) THEN ""
    ELSE (IF SubSeq(name, k, k) \in INVALID_NAME_RE THEN "-" ELSE SubSeq(name, k, k))
         \o SubFrom(name, k + 1)

safe_name(name) == SubFrom(name, 1)

(***************************************************************************)
(* The directory tree: [dirs |-> set of paths, files |-> path -> text].    *)
(***************************************************************************)
EmptyTree == [dirs |-> {}, files |-> << >>]

IsPrefix(p, q) == Len(p) <= Len(q) /\ SubSeq(q, 1, Len(p)) = p

\* Path.exists()
Exists(t, p) == p \in t.dirs \/ p \in DOMAIN t.files

\* ensure_dir: mkdir(parents=True, exist_ok=True)
ensure_dir(t, p) ==
    [t EXCEPT !.dirs = @ \cup {SubSeq(p, 1, k) : k \in 0..Len(p)}]

\* shutil.rmtree
rmtree(t, p) ==
    [dirs  |-> {d \in t.dirs : ~IsPrefix(p, d)},
     files |-> [f \in {g \in DOMAIN t.files : ~IsPrefix(p, g)} |-> t.files[f]]]

\* Path.write_text / open('w') followed by writes: create or truncate
write_text(t, p, text) ==
    [t EXCEPT !.files = [f \in DOMAIN t.files \cup {p} |->
                            IF f = p THEN text ELSE t.files[f]]]

\* the external tool writes the files of `out` (relative paths) under dest
ToolWrites(t, dest, out) ==
    [dirs  |-> t.dirs \cup UNION { {dest \o SubSeq(p, 1, k) : k \in 0..(Len(p) - 1)} :
                                   p \in DOMAIN out },
     files |-> [f \in DOMAIN t.files \cup {dest \o p : p \in DOMAIN out} |->
                  IF IsPrefix(dest, f) /\ SubSeq(f, Len(dest) + 1, Len(f)) \in DOMAIN out
                  THEN out[SubSeq(f, Len(dest) + 1, Len(f))]
                  ELSE t.files[f]]]

(***************************************************************************)
(* The helpers of the script, as functions of the tree and of the external *)
(* tool's result (exit status, captured output, files written).            *)
(***************************************************************************)
\* captured stdout / stderr of a generation or validation tool
ToolStdout(rc) == IF rc = 0 THEN "ok;" ELSE "partial;"

ToolStderr(rc) == IF rc = 0 THEN "" ELSE "error;"

\* variant of export_arm_template: stdout is written whatever the exit status
export_arm_template_always_writes(t, out_path, code, out) ==
    write_text(t, out_path, out)

\* export_arm_template: the tree after the call; the result is code = 0
export_arm_template(t, out_path, code, out) ==
    IF code # 0 THEN t ELSE write_text(t, out_path, out)

\* variant of terraformer_import: the parent of dest is what gets removed
terraformer_import_resets_parent(t, dest, log_prefix, rc, out) ==
    LET parent     == SubSeq(dest, 1, Len(dest) - 1)
        cleared    == rmtree(t, parent)
        made       == ensure_dir(cleared, dest)
        stdout_log == parent \o <<log_prefix \o "_out.log">>
        stderr_log == parent \o <<log_prefix \o "_err.log">>
        generated  == ToolWrites(made, dest, out)
    IN  write_text(write_text(generated, stdout_log, ToolStdout(rc)),
                   stderr_log, ToolStderr(rc))

\* variant of terraformer_import: dest is not removed first
terraformer_import_no_reset(t, dest, log_prefix, rc, out) ==
    LET made       == ensure_dir(t, dest)
        stdout_log == SubSeq(dest, 1, Len(dest) - 1) \o <<log_prefix \o "_out.log">>
        stderr_log == SubSeq(dest, 1, Len(dest) - 1) \o <<log_prefix \o "_err.log">>
        generated  == ToolWrites(made, dest, out)
    IN  write_text(write_text(generated, stdout_log, ToolStdout(rc)),
                   stderr_log, ToolStderr(rc))

\* variant of terraformer_import: the two logs are written inside dest
terraformer_import_logs_in_dest(t, dest, log_prefix, rc, out) ==
    LET cleared    == IF Exists(t, dest) THEN rmtree(t, dest) ELSE t
        made       == ensure_dir(cleared, dest)
        stdout_log == dest \o <<log_prefix \o "_out.log">>
        stderr_log == dest \o <<log_prefix \o "_err.log">>
        generated  == ToolWrites(made, dest, out)
    IN  write_text(write_text(generated, stdout_log, ToolStdout(rc)),
                   stderr_log, ToolStderr(rc))

\* terraformer_import: the tree after the call; the result is rc = 0
terraformer_import(t, dest, log_prefix, rc, out) ==
    LET cleared    == IF Exists(t, dest) THEN rmtree(t, dest) ELSE t
        made       == ensure_dir(cleared, dest)
        stdout_log == SubSeq(dest, 1, Len(dest) - 1) \o <<log_prefix \o "_out.log">>
        stderr_log == SubSeq(dest, 1, Len(dest) - 1) \o <<log_prefix \o "_err.log">>
        generated  == ToolWrites(made, dest, out)
    IN  write_text(write_text(generated, stdout_log, ToolStdout(rc)),
                   stderr_log, ToolStderr(rc))

\* terraform_init_ok: the tree after the call, when `terraform init` ran
terraform_init_ok(t, path, prefix, rc) ==
    IF ~Exists(t, path) THEN t
    ELSE LET stdout_file == path \o <<"init_" \o prefix \o "_out.txt">>
             stderr_file == path \o <<"init_" \o prefix \o "_err.txt">>
         IN  write_text(write_text(t, stdout_file, ToolStdout(rc)),
                        stderr_file, ToolStderr(rc))

\* variant of terraform_init_result: the directory is not looked for
terraform_init_result_rc_only(t, path, rc) == rc = 0

\* terraform_init_ok: the value returned
terraform_init_result(t, path, rc) == Exists(t, path) /\ rc = 0

\* fnmatch of a file name against '*.tf'
MatchesTf(name) == Len(name) >= 3 /\ SubSeq(name, Len(name) - 2, Len(name)) = ".tf"

\* chosen_dir.rglob('*.tf'): every entry below chosen_dir with a matching name
rglob_tf(t, chosen_dir) ==
    {f \in DOMAIN t.files : /\ IsPrefix(chosen_dir, f)
                            /\ Len(f) > Len(chosen_dir)
                            /\ MatchesTf(f[Len(f)])}

\* variant of sorted: the list is in descending order
RECURSIVE sorted_descending(_)
sorted_descending(S) ==
    IF S = {} THEN << >>
    ELSE LET greatest == CHOOSE p \in S : \A q \in S \ {p} : PathLess(q, p)
         IN  <<greatest>> \o sorted_descending(S \ {greatest})

\* sorted(paths): ascending list of a set of paths
RECURSIVE sorted(_)
sorted(S) ==
    IF S = {} THEN << >>
    ELSE LET least == CHOOSE p \in S : \A q \in S \ {p} : PathLess(p, q)
         IN  <<least>> \o sorted(S \ {least})

\* tf.relative_to(chosen_dir)
relative_to(tf, chosen_dir) == SubSeq(tf, Len(chosen_dir) + 1, Len(tf))

\* the provenance marker written before each file
Header(rel) == "\n// ===== file: " \o PathStr(rel) \o " =====\n"

\* the text consolidate_tf writes for the list tf_files
RECURSIVE Concatenated(_, _, _)
Concatenated(t, chosen_dir, tf_files) ==
    IF tf_files = << >> THEN ""
    ELSE Header(relative_to(Head(tf_files), chosen_dir))
         \o t.files[Head(tf_files)]
         \o Concatenated(t, chosen_dir, Tail(tf_files))

\* consolidate_tf: the tree after the call
consolidate_tf(t, chosen_dir, target_main) ==
    LET tf_files == sorted(rglob_tf(t, chosen_dir))
    IN  write_text(t, target_main, Concatenated(t, chosen_dir, tf_files))

(***************************************************************************)
(* The state of a run of the script.                                       *)
(***************************************************************************)
VARIABLES
    pc,               \* the statement main() or process_resource_group() is at
    exit_status,      \* the process exit status, once pc = "exit"
    has_terraformer,  \* main: shutil.which('terraformer') is not None
    rgs,              \* main: the listing, a sequence of resource group names
    i,                \* main: position of the for loop in rgs
    chosen,           \* process_resource_group: "None" or the chosen directory
    fs,               \* the directory tree below subs_folder
    fs_at_entry,      \* the tree when the current process_resource_group began
    trace,            \* the calls and console messages of this run, in order
    terraform_on_path, \* the environment: a terraform executable can be started
    processed         \* resource groups listed over all runs

vars == <<pc, exit_status, has_terraformer, rgs, i, chosen, fs, fs_at_entry,
          trace, terraform_on_path, processed>>

Ev(op, rg, arg, ok) == [op |-> op, rg |-> rg, arg |-> arg, ok |-> ok]

\* sequences of names, no longer than n
RECURSIVE Listings(_)
Listings(n) ==
    IF n = 0 THEN {<< >>}
    ELSE Listings(n - 1) \cup
         {Append(l, x) : l \in {m \in Listings(n - 1) : Len(m) = n - 1},
                         x \in Names}

\* a listing names each resource group once, in ascending order of name
Ascending(l) == \A a, b \in 1..Len(l) : a < b => StrLess(l[a], l[b])

\* the strategy directories, in the order they are tried
Strategies == <<"terraform_azurerm", "terraform_azapi">>

rg_name == rgs[i]

rg_folder == <<safe_name(rg_name)>>

tf_azurerm == rg_folder \o <<"terraform_azurerm">>

tf_azapi == rg_folder \o <<"terraform_azapi">>

arm_out == rg_folder \o <<"template.json">>

target_main == rg_folder \o <<"main.tf">>

Init ==
    /\ pc = "az_login"
    /\ exit_status = 0
    /\ has_terraformer = FALSE
    /\ rgs = << >>
    /\ i = 1
    /\ chosen = "None"
    /\ fs = EmptyTree
    /\ fs_at_entry = EmptyTree
    /\ trace = << >>
    /\ terraform_on_path \in BOOLEAN
    /\ processed = 0

\* raise SystemExit(message), or an exception nobody catches
Abort(ev) ==
    /\ pc' = "exit"
    /\ exit_status' = 1
    /\ trace' = Append(trace, ev)

\* variant of AzLogin: main goes on to the listing without set_subscription
AzLoginSkipsSubscription ==
    /\ pc = "az_login"
    /\ \E use_sp \in BOOLEAN, env_set \in BOOLEAN, code \in ExitCodes, code2 \in ExitCodes :
         LET ok  == IF use_sp THEN env_set /\ code = 0
                    ELSE code = 0 \/ code2 = 0
             why == IF ~use_sp THEN "az login failed"
                    ELSE IF ~env_set THEN "AZCLIENTID/AZCLIENTSECRET/AZTENANTID not set"
                    ELSE "az login (service-principal) failed"
         IN  IF ok
             THEN /\ pc' = "list_resource_groups"
                  /\ trace' = Append(trace, Ev("az_login", "", "", TRUE))
                  /\ UNCHANGED exit_status
             ELSE Abort(Ev("az_login", "", why, FALSE))
    /\ UNCHANGED <<has_terraformer, rgs, i, chosen, fs, fs_at_entry, terraform_on_path, processed>>

\* main, line 181: az_login(args.use_sp)
AzLogin ==
    /\ pc = "az_login"
    /\ \E use_sp \in BOOLEAN, env_set \in BOOLEAN, code \in ExitCodes, code2 \in ExitCodes :
         LET ok  == IF use_sp THEN env_set /\ code = 0
                    ELSE code = 0 \/ code2 = 0
             why == IF ~use_sp THEN "az login failed"
                    ELSE IF ~env_set THEN "AZCLIENTID/AZCLIENTSECRET/AZTENANTID not set"
                    ELSE "az login (service-principal) failed"
         IN  IF ok
             THEN /\ pc' = "set_subscription"
                  /\ trace' = Append(trace, Ev("az_login", "", "", TRUE))
                  /\ UNCHANGED exit_status
             ELSE Abort(Ev("az_login", "", why, FALSE))
    /\ UNCHANGED <<has_terraformer, rgs, i, chosen, fs, fs_at_entry, terraform_on_path, processed>>

\* main, lines 182-185: set_subscription, then ensure_dir(subs_folder)
SetSubscription ==
    /\ pc = "set_subscription"
    /\ \E code \in ExitCodes :
         IF code = 0
         THEN /\ pc' = "which_terraformer"
              /\ trace' = Append(trace, Ev("set_subscription", "", "", TRUE))
              /\ fs' = ensure_dir(fs, << >>)
              /\ UNCHANGED exit_status
         ELSE /\ Abort(Ev("set_subscription", "", "", FALSE))
              /\ UNCHANGED fs
    /\ UNCHANGED <<has_terraformer, rgs, i, chosen, fs_at_entry, terraform_on_path, processed>>

\* main, lines 188-190: look for terraformer, warn when it is missing
WhichTerraformer ==
    /\ pc = "which_terraformer"
    /\ \E found \in BOOLEAN :
         /\ has_terraformer' = found
         /\ trace' = IF found THEN trace
                     ELSE Append(trace, Ev("print", "", "Warning: terraformer not found", TRUE))
    /\ pc' = "list_resource_groups"
    /\ UNCHANGED <<exit_status, rgs, i, chosen, fs, fs_at_entry, terraform_on_path, processed>>

\* variant of ListResourceGroups: a failed listing does not end the run
ListResourceGroupsUnchecked ==
    /\ pc = "list_resource_groups"
    /\ \E code \in ExitCodes, listing \in {l \in Listings(MaxGroups) : Ascending(l)} :
         /\ processed + Len(listing) <= MaxProcessed
         /\ rgs' = listing
         /\ i' = 1
         /\ processed' = processed + Len(listing)
         /\ IF listing = << >>
            THEN /\ pc' = "exit"
                 /\ exit_status' = 0
                 /\ trace' = trace \o <<Ev("list_resource_groups", "", "", code = 0),
                                        Ev("print", "", "No resource groups found", TRUE)>>
            ELSE /\ pc' = "for"
                 /\ trace' = Append(trace, Ev("list_resource_groups", "", "", code = 0))
                 /\ UNCHANGED exit_status
    /\ UNCHANGED <<has_terraformer, chosen, fs, fs_at_entry, terraform_on_path>>

\* variant of ListResourceGroups: an empty listing is not tested for
ListResourceGroupsNoEmptyCheck ==
    /\ pc = "list_resource_groups"
    /\ \E code \in ExitCodes, listing \in {l \in Listings(MaxGroups) : Ascending(l)} :
         IF code # 0
         THEN /\ Abort(Ev("list_resource_groups", "", "", FALSE))
              /\ UNCHANGED <<rgs, i, processed>>
         ELSE /\ processed + Len(listing) <= MaxProcessed
              /\ rgs' = listing
              /\ i' = 1
              /\ processed' = processed + Len(listing)
              /\ pc' = "for"
              /\ trace' = Append(trace, Ev("list_resource_groups", "", "", TRUE))
              /\ UNCHANGED exit_status
    /\ UNCHANGED <<has_terraformer, chosen, fs, fs_at_entry, terraform_on_path>>

\* main, lines 192-195: list the resource groups, return when there are none
ListResourceGroups ==
    /\ pc = "list_resource_groups"
    /\ \E code \in ExitCodes, listing \in {l \in Listings(MaxGroups) : Ascending(l)} :
         IF code # 0
         THEN /\ Abort(Ev("list_resource_groups", "", "", FALSE))
              /\ UNCHANGED <<rgs, i, processed>>
         ELSE /\ processed + Len(listing) <= MaxProcessed
              /\ rgs' = listing
              /\ i' = 1
              /\ processed' = processed + Len(listing)
              /\ IF listing = << >>
                 THEN /\ pc' = "exit"
                      /\ exit_status' = 0
                      /\ trace' = trace \o <<Ev("list_resource_groups", "", "", TRUE),
                                             Ev("print", "", "No resource groups found", TRUE)>>
                 ELSE /\ pc' = "for"
                      /\ trace' = Append(trace, Ev("list_resource_groups", "", "", TRUE))
                      /\ UNCHANGED exit_status
    /\ UNCHANGED <<has_terraformer, chosen, fs, fs_at_entry, terraform_on_path>>

\* main, lines 197-200: the loop is exhausted
ForDone ==
    /\ pc = "for"
    /\ i > Len(rgs)
    /\ pc' = "exit"
    /\ exit_status' = 0
    /\ trace' = Append(trace, Ev("print", "", "Done", TRUE))
    /\ UNCHANGED <<has_terraformer, rgs, i, chosen, fs, fs_at_entry, terraform_on_path, processed>>

\* variant of ProcessResourceGroup: the strategy directories are made on entry
ProcessResourceGroupMakesDirs ==
    /\ pc = "for"
    /\ i <= Len(rgs)
    /\ fs_at_entry' = fs
    /\ fs' = ensure_dir(ensure_dir(fs, tf_azurerm), tf_azapi)
    /\ chosen' = "None"
    /\ trace' = Append(trace, Ev("process_resource_group", rg_name, "", TRUE))
    /\ pc' = "export"
    /\ UNCHANGED <<exit_status, has_terraformer, rgs, i, terraform_on_path, processed>>

\* process_resource_group, lines 122-125: entered for the next group
\* (chosen, a local of the call, starts as None: line 135)
ProcessResourceGroup ==
    /\ pc = "for"
    /\ i <= Len(rgs)
    /\ fs_at_entry' = fs
    /\ fs' = ensure_dir(fs, rg_folder)
    /\ chosen' = "None"
    /\ trace' = Append(trace, Ev("process_resource_group", rg_name, "", TRUE))
    /\ pc' = "export"
    /\ UNCHANGED <<exit_status, has_terraformer, rgs, i, terraform_on_path, processed>>

\* variant of Return: the loop steps over the next group
ReturnSkipsNext(events) ==
    /\ pc' = "for"
    /\ i' = i + 2
    /\ trace' = trace \o events \o <<Ev("return", rg_name, "", TRUE)>>

\* process_resource_group returns to the loop in main
Return(events) ==
    /\ pc' = "for"
    /\ i' = i + 1
    /\ trace' = trace \o events \o <<Ev("return", rg_name, "", TRUE)>>

\* variant of ExportArmTemplate: the result of the export is not tested
ExportArmTemplateNoGate ==
    /\ pc = "export"
    /\ \E code \in ExitCodes, out \in ExportOutputs :
         /\ fs' = export_arm_template(fs, arm_out, code, out)
         /\ pc' = IF has_terraformer THEN "import_azurerm" ELSE "finish"
         /\ trace' = Append(trace, Ev("export_arm_template", rg_name, "", code = 0))
         /\ UNCHANGED i
    /\ UNCHANGED <<exit_status, has_terraformer, rgs, chosen, fs_at_entry, terraform_on_path, processed>>

\* variant of ExportArmTemplate: has_terraformer is not consulted
ExportArmTemplateNoToolCheck ==
    /\ pc = "export"
    /\ \E code \in ExitCodes, out \in ExportOutputs :
         /\ fs' = export_arm_template(fs, arm_out, code, out)
         /\ IF code # 0
            THEN Return(<<Ev("export_arm_template", rg_name, "", FALSE),
                          Ev("print", rg_name, "skipped", TRUE)>>)
            ELSE /\ pc' = "import_azurerm"
                 /\ trace' = Append(trace, Ev("export_arm_template", rg_name, "", TRUE))
                 /\ UNCHANGED i
    /\ UNCHANGED <<exit_status, has_terraformer, rgs, chosen, fs_at_entry,
                   terraform_on_path, processed>>

\* process_resource_group, lines 127-135: export, return when it failed
ExportArmTemplate ==
    /\ pc = "export"
    /\ \E code \in ExitCodes, out \in ExportOutputs :
         /\ fs' = export_arm_template(fs, arm_out, code, out)
         /\ IF code # 0
            THEN Return(<<Ev("export_arm_template", rg_name, "", FALSE),
                          Ev("print", rg_name, "skipped", TRUE)>>)
            ELSE /\ pc' = IF has_terraformer THEN "import_azurerm" ELSE "finish"
                 /\ trace' = Append(trace, Ev("export_arm_template", rg_name, "", TRUE))
                 /\ UNCHANGED i
    /\ UNCHANGED <<exit_status, has_terraformer, rgs, chosen, fs_at_entry, terraform_on_path, processed>>

\* variant of Import: the validator is tried whatever the generator returned
ImportAlwaysValidates(dest, log_prefix, validate, otherwise) ==
    /\ \E rc \in ExitCodes, out \in GenOutputs \cup GenPartialOutputs :
         /\ out \in (IF rc = 0 THEN GenOutputs ELSE GenPartialOutputs)
         /\ fs' = terraformer_import(fs, dest, log_prefix, rc, out)
         /\ trace' = Append(trace, Ev("terraformer_import", rg_name, dest[Len(dest)], rc = 0))
         /\ pc' = validate
    /\ UNCHANGED <<exit_status, has_terraformer, rgs, i, chosen, fs_at_entry, terraform_on_path, processed>>

\* one terraformer_import call of process_resource_group
Import(dest, log_prefix, validate, otherwise) ==
    /\ \E rc \in ExitCodes, out \in GenOutputs \cup GenPartialOutputs :
         /\ out \in (IF rc = 0 THEN GenOutputs ELSE GenPartialOutputs)
         /\ fs' = terraformer_import(fs, dest, log_prefix, rc, out)
         /\ trace' = Append(trace, Ev("terraformer_import", rg_name, dest[Len(dest)], rc = 0))
         /\ pc' = IF rc = 0 THEN validate ELSE otherwise
    /\ UNCHANGED <<exit_status, has_terraformer, rgs, i, chosen, fs_at_entry, terraform_on_path, processed>>

\* variant of Validate: a validated directory does not end the attempts
ValidateKeepsGoing(path, prefix, otherwise) ==
    /\ \E rc \in ExitCodes :
         IF Exists(fs, path) /\ ~terraform_on_path
         THEN /\ Abort(Ev("raise", rg_name, path[Len(path)], FALSE))
              /\ UNCHANGED <<fs, chosen>>
         ELSE /\ fs' = terraform_init_ok(fs, path, prefix, rc)
              /\ trace' = Append(trace, Ev("terraform_init_ok", rg_name, path[Len(path)],
                                           terraform_init_result(fs, path, rc)))
              /\ chosen' = IF terraform_init_result(fs, path, rc)
                           THEN path[Len(path)] ELSE chosen
              /\ pc' = otherwise
              /\ UNCHANGED exit_status
    /\ UNCHANGED <<has_terraformer, rgs, i, fs_at_entry, terraform_on_path, processed>>

\* one terraform_init_ok call of process_resource_group; subprocess.run
\* raises OSError when the terraform executable cannot be started
Validate(path, prefix, otherwise) ==
    /\ \E rc \in ExitCodes :
         IF Exists(fs, path) /\ ~terraform_on_path
         THEN /\ Abort(Ev("raise", rg_name, path[Len(path)], FALSE))
              /\ UNCHANGED <<fs, chosen>>
         ELSE /\ fs' = terraform_init_ok(fs, path, prefix, rc)
              /\ trace' = Append(trace, Ev("terraform_init_ok", rg_name, path[Len(path)],
                                           terraform_init_result(fs, path, rc)))
              /\ IF terraform_init_result(fs, path, rc)
                 THEN /\ chosen' = path[Len(path)]
                      /\ pc' = "finish"
                 ELSE /\ pc' = otherwise
                      /\ UNCHANGED chosen
              /\ UNCHANGED exit_status
    /\ UNCHANGED <<has_terraformer, rgs, i, fs_at_entry, terraform_on_path, processed>>

\* process_resource_group, lines 137-139 and 147-148
ImportAzurerm ==
    /\ pc = "import_azurerm"
    /\ Import(tf_azurerm, "tf_azurerm", "init_azurerm", "import_azapi")

\* process_resource_group, lines 140-146
InitAzurerm ==
    /\ pc = "init_azurerm"
    /\ Validate(tf_azurerm, "azurerm", "import_azapi")

\* process_resource_group, lines 150-152 and 159-160
ImportAzapi ==
    /\ pc = "import_azapi"
    /\ Import(tf_azapi, "tf_azapi", "init_azapi", "finish")

\* process_resource_group, lines 153-158
InitAzapi ==
    /\ pc = "init_azapi"
    /\ Validate(tf_azapi, "azapi", "finish")

\* variant of Finish: the first strategy's directory is what gets consolidated
FinishFirstDirectory ==
    /\ pc = "finish"
    /\ IF chosen # "None"
       THEN /\ fs' = consolidate_tf(fs, tf_azurerm, target_main)
            /\ Return(<<Ev("consolidate_tf", rg_name, chosen, TRUE)>>)
       ELSE /\ UNCHANGED fs
            /\ Return(<<Ev("print", rg_name, "No working Terraform generated", TRUE)>>)
    /\ UNCHANGED <<exit_status, has_terraformer, rgs, chosen, fs_at_entry, terraform_on_path, processed>>

\* process_resource_group, lines 162-168: consolidate the chosen directory
Finish ==
    /\ pc = "finish"
    /\ IF chosen # "None"
       THEN /\ fs' = consolidate_tf(fs, rg_folder \o <<chosen>>, target_main)
            /\ Return(<<Ev("consolidate_tf", rg_name, chosen, TRUE)>>)
       ELSE /\ UNCHANGED fs
            /\ Return(<<Ev("print", rg_name, "No working Terraform generated", TRUE)>>)
    /\ UNCHANGED <<exit_status, has_terraformer, rgs, chosen, fs_at_entry, terraform_on_path, processed>>

\* the script is started again over the same output root, after a run that
\* listed resource groups
Rerun ==
    /\ pc = "exit"
    /\ rgs # << >>
    /\ processed < MaxProcessed
    /\ terraform_on_path' \in BOOLEAN
    /\ pc' = "az_login"
    /\ exit_status' = 0
    /\ has_terraformer' = FALSE
    /\ rgs' = << >>
    /\ i' = 1
    /\ chosen' = "None"
    /\ fs_at_entry' = EmptyTree
    /\ trace' = << >>
    /\ UNCHANGED <<fs, processed>>

(***************************************************************************)
(* consolidate_tf on its own: applied, and applied again, to a chosen      *)
(* directory holding any set of the candidate files below, called the way  *)
(* process_resource_group calls it (lines 162-165).                        *)
(***************************************************************************)
\* files a chosen directory may hold, relative to it
CandidatePaths ==
    {<<"a.tf">>, <<"b.tf">>, <<"a", "x.tf">>, <<"a-b", "y.tf">>, <<"main.tf">>,
     <<"notes.txt">>}

\* the text of a candidate file
CandidateText(p) == "<" \o PathStr(p) \o ">"

InitConsolidate ==
    /\ pc = "consolidate_tf"
    /\ exit_status = 0
    /\ has_terraformer = TRUE
    /\ terraform_on_path = TRUE
    /\ rgs = <<"rg">>
    /\ i = 1
    /\ chosen \in {Strategies[1], Strategies[2]}
    /\ \E S \in SUBSET CandidatePaths, stale \in BOOLEAN :
         LET dir   == rg_folder \o <<chosen>>
             made  == ensure_dir(EmptyTree, dir)
             tree  == ToolWrites(made, dir, [p \in S |-> CandidateText(p)])
         IN  fs = IF stale THEN write_text(tree, target_main, "stale;") ELSE tree
    /\ fs_at_entry = fs
    /\ trace = << >>
    /\ processed = 1

\* process_resource_group, line 165: consolidate_tf(chosen, target_main)
ConsolidateTf ==
    /\ pc = "consolidate_tf"
    /\ Len(trace) < MaxConsolidations
    /\ fs' = consolidate_tf(fs, rg_folder \o <<chosen>>, target_main)
    /\ trace' = Append(trace, Ev("consolidate_tf", rg_name, chosen, TRUE))
    /\ UNCHANGED <<pc, exit_status, has_terraformer, rgs, i, chosen, fs_at_entry,
                   terraform_on_path, processed>>

NextConsolidate == ConsolidateTf

SpecConsolidate == InitConsolidate /\ [][NextConsolidate]_vars

(***************************************************************************)
(* terraform_init_ok on its own: one call on a candidate directory that    *)
(* may not exist, may be empty, or may hold files of an earlier run.       *)
(***************************************************************************)
InitValidate ==
    /\ pc \in {"init_azurerm", "init_azapi"}
    /\ exit_status = 0
    /\ has_terraformer = TRUE
    /\ terraform_on_path \in BOOLEAN
    /\ rgs = <<"rg">>
    /\ i = 1
    /\ chosen = "None"
    /\ \E present \in BOOLEAN, S \in SUBSET CandidatePaths, old \in BOOLEAN :
         LET dir   == rg_folder \o <<IF pc = "init_azurerm" THEN Strategies[1]
                                                            ELSE Strategies[2]>>
             label == IF pc = "init_azurerm" THEN "azurerm" ELSE "azapi"
             made  == ensure_dir(EmptyTree, dir)
             tree  == ToolWrites(made, dir, [p \in S |-> CandidateText(p)])
         IN  fs = IF ~present THEN ensure_dir(EmptyTree, rg_folder)
                  ELSE IF old THEN terraform_init_ok(tree, dir, label, 1)
                  ELSE tree
    /\ fs_at_entry = fs
    /\ trace = << >>
    /\ processed = 1

NextValidate == InitAzurerm \/ InitAzapi

SpecValidate == InitValidate /\ [][NextValidate]_vars

Next ==
    \/ AzLogin
    \/ SetSubscription
    \/ WhichTerraformer
    \/ ListResourceGroups
    \/ ForDone
    \/ ProcessResourceGroup
    \/ ExportArmTemplate
    \/ ImportAzurerm
    \/ InitAzurerm
    \/ ImportAzapi
    \/ InitAzapi
    \/ Finish
    \/ Rerun

Spec == Init /\ [][Next]_vars

(***************************************************************************)
(* Reading the trace.                                                      *)
(***************************************************************************)
\* the position of the latest process_resource_group entry at or before k
RECURSIVE LastEntry(_)
LastEntry(k) ==
    IF k = 0 THEN 0
    ELSE IF trace[k].op = "process_resource_group" THEN k
    ELSE LastEntry(k - 1)

\* process_resource_group has been entered in this run
InCall == LastEntry(Len(trace)) > 0

\* the events of the latest process_resource_group call, entry included
Call == SubSeq(trace, LastEntry(Len(trace)), Len(trace))

In(seq, e) == \E p \in 1..Len(seq) : seq[p] = e

Invoked(seq, op, arg) == \E p \in 1..Len(seq) : seq[p].op = op /\ seq[p].arg = arg

\* the folder of the group call c is about
Folder(c) == <<safe_name(c[1].rg)>>

\* call c has returned to the loop and nothing happened since
Returned(c) == c[Len(c)].op = "return"

ExportOk(c) == In(c, Ev("export_arm_template", c[1].rg, "", TRUE))

ExportFailed(c) == In(c, Ev("export_arm_template", c[1].rg, "", FALSE))

GenOk(c, d) == In(c, Ev("terraformer_import", c[1].rg, d, TRUE))

GenFailed(c, d) == In(c, Ev("terraformer_import", c[1].rg, d, FALSE))

ValOk(c, d) == In(c, Ev("terraform_init_ok", c[1].rg, d, TRUE))

\* the first strategy, in the fixed order, that generated and validated in c
FirstSuccess(c) ==
    IF GenOk(c, Strategies[1]) /\ ValOk(c, Strategies[1]) THEN Strategies[1]
    ELSE IF GenOk(c, Strategies[2]) /\ ValOk(c, Strategies[2]) THEN Strategies[2]
    ELSE "None"

\* the group's folder did not exist when call c began
FreshFolder(c) == ~Exists(fs_at_entry, Folder(c))

\* everything below directory d, the directory itself excluded
Below(t, d) ==
    {p \in t.dirs \cup DOMAIN t.files : IsPrefix(d, p) /\ Len(p) > Len(d)}

(***************************************************************************)
(* C1  First success wins.  In every call of process_resource_group the    *)
(* chosen directory is that of the first strategy, in the order            *)
(* terraform_azurerm, terraform_azapi, whose generation and validation     *)
(* both succeeded; when azurerm generated and validated, no generator or   *)
(* validator call is made for azapi; what is consolidated is the chosen    *)
(* directory; and a chosen directory is never replaced within the call.    *)
(***************************************************************************)
ChosenIsFirstSuccess ==
    InCall =>
        LET c     == Call
            first == FirstSuccess(c)
        IN  /\ chosen = first
            /\ first = Strategies[1] =>
                   /\ ~Invoked(c, "terraformer_import", Strategies[2])
                   /\ ~Invoked(c, "terraform_init_ok", Strategies[2])
            /\ \A p \in 1..Len(c) : c[p].op = "consolidate_tf" => c[p].arg = first

ChosenNeverReplaced ==
    chosen # "None" => (chosen' = chosen \/ pc' \in {"export", "az_login"})

FirstSuccessWins == []ChosenIsFirstSuccess /\ [][ChosenNeverReplaced]_vars

\* azurerm validated and was consolidated, azapi was left alone
WitnessFirstSuccessWins ==
    /\ InCall
    /\ Returned(Call)
    /\ chosen = Strategies[1]
    /\ Invoked(Call, "consolidate_tf", Strategies[1])

(***************************************************************************)
(* C2  Outcome trichotomy.  When process_resource_group returns for a      *)
(* group whose folder did not exist before the call, exactly one holds:    *)
(* (a) export failed and the folder is empty; (b) main.tf exists and is    *)
(* the consolidation of the directory of the one strategy that generated   *)
(* and validated in this call; (c) template.json exists and main.tf does   *)
(* not.                                                                    *)
(***************************************************************************)
OutcomeSkipped(c) == ExportFailed(c) /\ Below(fs, Folder(c)) = {}

OutcomeConsolidated(c) ==
    /\ (Folder(c) \o <<"main.tf">>) \in DOMAIN fs.files
    /\ \E k \in 1..2 :
         LET dir == Folder(c) \o <<Strategies[k]>>
         IN  /\ GenOk(c, Strategies[k]) /\ ValOk(c, Strategies[k])
             /\ ~(GenOk(c, Strategies[3 - k]) /\ ValOk(c, Strategies[3 - k]))
             /\ fs.files[Folder(c) \o <<"main.tf">>]
                  = Concatenated(fs, dir, sorted(rglob_tf(fs, dir)))

OutcomeExportOnly(c) ==
    /\ (Folder(c) \o <<"template.json">>) \in DOMAIN fs.files
    /\ (Folder(c) \o <<"main.tf">>) \notin DOMAIN fs.files

ExportIsHardGate ==
    \A p \in 1..Len(trace) :
        (trace[p].op = "export_arm_template" /\ ~trace[p].ok) =>
            /\ \A q \in 1..Len(trace) :
                   trace[q].rg = trace[p].rg =>
                       trace[q].op \notin {"terraformer_import", "terraform_init_ok",
                                           "consolidate_tf", "raise"}
            /\ Len(trace) >= p + 2
            /\ trace[p + 2] = Ev("return", trace[p].rg, "", TRUE)
            /\ (Len(trace) = p + 2) => pc = "for"
            /\ (Len(trace) > p + 2) =>
                   trace[p + 3].op = "process_resource_group" \/ trace[p + 3].arg = "Done"

\* the first group of two failed to export and the second one was entered
WitnessExportIsHardGate ==
    /\ Len(trace) >= 2
    /\ \E p \in 1..(Len(trace) - 1) :
         /\ trace[p].op = "export_arm_template" /\ ~trace[p].ok
         /\ trace[Len(trace)].op = "process_resource_group"
         /\ trace[Len(trace)].rg # trace[p].rg

(***************************************************************************)
(* C4  The batch never aborts on a per-group failure.  A run that listed   *)
(* its resource groups ends only after process_resource_group returned for *)
(* every listed group, and no error leaves process_resource_group.         *)
(***************************************************************************)
Listed == In(trace, Ev("list_resource_groups", "", "", TRUE))

BatchRunsEveryGroup ==
    (pc = "exit" /\ Listed) =>
        /\ \A k \in 1..Len(rgs) : In(trace, Ev("return", rgs[k], "", TRUE))
        /\ \A p \in 1..Len(trace) : trace[p].op # "raise"

(***************************************************************************)
(* C5  main.tf only after a validation of the same run.  When              *)
(* process_resource_group returns for a group G that shares its folder     *)
(* with no other group name, main.tf exists in G's folder only if a        *)
(* strategy's directory passed terraform_init_ok in that call, whether or  *)
(* not the folder held files of an earlier run.                            *)
(***************************************************************************)
OwnsFolder(g) == \A n \in Names \ {g} : safe_name(n) # safe_name(g)

MainTfOnlyIfValidated ==
    (pc = "for" /\ InCall) =>
        LET c == Call
        IN  (Returned(c) /\ OwnsFolder(c[1].rg)
               /\ (Folder(c) \o <<"main.tf">>) \in DOMAIN fs.files) =>
                \E k \in 1..2 : ValOk(c, Strategies[k])

(***************************************************************************)
(* C6  Fallback scenario.  Export succeeded, the azurerm generator exited  *)
(* non-zero, the azapi generator and validator succeeded.                  *)
(***************************************************************************)
FallbackScenario(c) ==
    /\ Returned(c)
    /\ ExportOk(c)
    /\ GenFailed(c, Strategies[1])
    /\ GenOk(c, Strategies[2])
    /\ ValOk(c, Strategies[2])

GenLogs(label) == {"tf_" \o label \o "_out.log", "tf_" \o label \o "_err.log"}

InitLogs(label) == {"init_" \o label \o "_out.txt", "init_" \o label \o "_err.txt"}

\* the names of the files directly in directory d
FilesIn(t, d) == {f[Len(f)] : f \in {g \in DOMAIN t.files : Len(g) = Len(d) + 1 /\ IsPrefix(d, g)}}

\* the names of all files below directory d
FilesBelow(t, d) == {f[Len(f)] : f \in {g \in DOMAIN t.files : Len(g) > Len(d) /\ IsPrefix(d, g)}}

\* C6 as claimed: the generation logs are inside the strategy directories,
\* and the azurerm directory holds nothing but them
FallbackLayoutLogsInside ==
    (pc = "for" /\ InCall) =>
        LET c  == Call
            A  == Folder(c) \o <<Strategies[1]>>
            B  == Folder(c) \o <<Strategies[2]>>
        IN  FallbackScenario(c) =>
                /\ (Folder(c) \o <<"template.json">>) \in DOMAIN fs.files
                /\ A \in fs.dirs
                /\ FilesBelow(fs, A) = GenLogs("azurerm")
                /\ B \in fs.dirs
                /\ GenLogs("azapi") \cup InitLogs("azapi") \subseteq FilesIn(fs, B)
                /\ (Folder(c) \o <<"main.tf">>) \in DOMAIN fs.files
                /\ fs.files[Folder(c) \o <<"main.tf">>]
                     = Concatenated(fs, B, sorted(rglob_tf(fs, B)))

\* C6 amended: the generation logs of both strategies are files of the
\* group's folder, next to the strategy directories; the azurerm directory
\* holds what the failed generator left and no log; the azapi directory
\* holds the two init logs; main.tf is the consolidation of the azapi
\* directory.
FallbackLayout ==
    (pc = "for" /\ InCall) =>
        LET c  == Call
            A  == Folder(c) \o <<Strategies[1]>>
            B  == Folder(c) \o <<Strategies[2]>>
        IN  FallbackScenario(c) =>
                /\ (Folder(c) \o <<"template.json">>) \in DOMAIN fs.files
                /\ A \in fs.dirs
                /\ \E out \in GenPartialOutputs :
                       {f \in DOMAIN fs.files : IsPrefix(A, f)} = {A \o q : q \in DOMAIN out}
                /\ B \in fs.dirs
                /\ InitLogs("azapi") \subseteq FilesIn(fs, B)
                /\ FilesBelow(fs, B) \cap (GenLogs("azurerm") \cup GenLogs("azapi")) = {}
                /\ GenLogs("azurerm") \cup GenLogs("azapi") \subseteq FilesIn(fs, Folder(c))
                /\ (Folder(c) \o <<"main.tf">>) \in DOMAIN fs.files
                /\ fs.files[Folder(c) \o <<"main.tf">>]
                     = Concatenated(fs, B, sorted(rglob_tf(fs, B)))

\* the fallback scenario has run to its return
WitnessFallbackLayout ==
    /\ pc = "for"
    /\ InCall
    /\ FallbackScenario(Call)
    /\ chosen = Strategies[2]

(***************************************************************************)
(* C7  Absent-tool degradation.  terraformer is not on PATH.               *)
(***************************************************************************)
WarningText == "Warning: terraformer not found"

Warnings == {p \in 1..Len(trace) : trace[p].arg = WarningText}

NoGeneratorNoValidator ==
    \A p \in 1..Len(trace) : trace[p].op \notin {"terraformer_import", "terraform_init_ok"}

WarnedOnceUpFront ==
    /\ Cardinality(Warnings) = 1
    /\ \A p \in Warnings : \A q \in 1..p : trace[q].op # "process_resource_group"

\* C7 as claimed: whenever the export succeeded the group's folder holds
\* template.json and nothing else
AbsentToolOnlyTemplate ==
    (InCall /\ ~has_terraformer) =>
        LET c == Call
        IN  /\ NoGeneratorNoValidator
            /\ WarnedOnceUpFront
            /\ (Returned(c) /\ ExportOk(c)) =>
                   Below(fs, Folder(c)) = {Folder(c) \o <<"template.json">>}

\* the tree t without the file p
Without(t, p) ==
    [dirs |-> t.dirs, files |-> [f \in DOMAIN t.files \ {p} |-> t.files[f]]]

\* C7 amended: without terraformer no generator or validator call is made
\* for any group, the warning is printed once and before the first group,
\* and a call whose export succeeded writes template.json and changes
\* nothing else in the tree, so that a folder that did not exist before the
\* call holds template.json and nothing else.
AbsentToolExportOnly ==
    (InCall /\ ~has_terraformer) =>
        LET c        == Call
            template == Folder(c) \o <<"template.json">>
        IN  /\ NoGeneratorNoValidator
            /\ WarnedOnceUpFront
            /\ (Returned(c) /\ ExportOk(c)) =>
                   /\ template \in DOMAIN fs.files
                   /\ Without(fs, template) = Without(ensure_dir(fs_at_entry, Folder(c)), template)
                   /\ FreshFolder(c) => Below(fs, Folder(c)) = {template}

\* without terraformer, the second group of a listing was exported into a
\* folder of its own
WitnessAbsentToolExportOnly ==
    /\ InCall
    /\ ~has_terraformer
    /\ Returned(Call)
    /\ ExportOk(Call)
    /\ FreshFolder(Call)
    /\ i = 3

(***************************************************************************)
(* C8  Consolidation is an order-stable, lossless concatenation.  After    *)
(* consolidate_tf, and after applying it again, the target holds, for the  *)
(* .tf files found at any depth below the chosen directory as it was       *)
(* before, taken in ascending order of path (compared part by part), the   *)
(* provenance header naming the file's path relative to the chosen         *)
(* directory followed by the file's full text, and nothing else; the       *)
(* target is not below the chosen directory, and nothing but the target    *)
(* changes.                                                                *)
(***************************************************************************)
\* the .tf files below directory d of tree t
TfFilesBelow(t, d) ==
    {f \in DOMAIN t.files :
        /\ Len(f) > Len(d)
        /\ SubSeq(f, 1, Len(d)) = d
        /\ \E stem \in {SubSeq(f[Len(f)], 1, Len(f[Len(f)]) - 3)} :
               f[Len(f)] = stem \o ".tf"}

\* the enumerations of S without repetition
Enumerations(S) ==
    {e \in [1..Cardinality(S) -> S] : \A a, b \in 1..Cardinality(S) : a # b => e[a] # e[b]}

RECURSIVE Joined(_, _, _)
Joined(t, d, e) ==
    IF Len(e) = 0 THEN ""
    ELSE "\n// ===== file: " \o PathStr(SubSeq(e[1], Len(d) + 1, Len(e[1]))) \o " =====\n"
         \o t.files[e[1]] \o Joined(t, d, Tail(e))

ConsolidationIsOrderedConcatenation ==
    (pc = "consolidate_tf" /\ trace # << >>) =>
        LET dir    == rg_folder \o <<chosen>>
            before == fs_at_entry
        IN  /\ target_main \notin TfFilesBelow(before, dir)
            /\ Without(fs, target_main) = Without(before, target_main)
            /\ target_main \in DOMAIN fs.files
            /\ \E e \in Enumerations(TfFilesBelow(before, dir)) :
                   /\ \A a, b \in 1..Len(e) : a < b => PathLess(e[a], e[b])
                   /\ fs.files[target_main] = Joined(before, dir, e)

\* consolidate_tf was applied twice to a directory where a subdirectory
\* sorts before a file, a main.tf of its own is present, and a stale target
\* existed
WitnessConsolidationIsOrderedConcatenation ==
    /\ pc = "consolidate_tf"
    /\ Len(trace) = 2
    /\ {rg_folder \o <<chosen, "a.tf">>, rg_folder \o <<chosen, "a", "x.tf">>,
        rg_folder \o <<chosen, "main.tf">>, rg_folder \o <<chosen, "notes.txt">>}
           \subseteq DOMAIN fs_at_entry.files
    /\ target_main \in DOMAIN fs_at_entry.files

(***************************************************************************)
(* C9  Directory reset.  Right after every terraformer_import call the     *)
(* destination directory exists and holds exactly the files and            *)
(* directories that this one invocation of the tool wrote: nothing that    *)
(* was in the directory before, generated file or init log, is left.       *)
(***************************************************************************)
\* directory d of tree t holds exactly the output `out` (of paths of at
\* most two parts)
HoldsExactly(t, d, out) ==
    /\ d \in t.dirs
    /\ {f \in DOMAIN t.files : IsPrefix(d, f)} = {d \o q : q \in DOMAIN out}
    /\ \A q \in DOMAIN out : t.files[d \o q] = out[q]
    /\ {e \in t.dirs : IsPrefix(d, e)}
          = {d} \cup {d \o <<q[1]>> : q \in {r \in DOMAIN out : Len(r) = 2}}

DirectoryResetByGenerator ==
    (trace # << >> /\ trace[Len(trace)].op = "terraformer_import") =>
        LET last == trace[Len(trace)]
            dest == <<safe_name(last.rg), last.arg>>
        IN  \E out \in (IF last.ok THEN GenOutputs ELSE GenPartialOutputs) :
                HoldsExactly(fs, dest, out)

\* the generator has just run over a directory that an earlier attempt had
\* left with generated files and init logs in it
WitnessDirectoryResetByGenerator ==
    /\ trace # << >>
    /\ trace[Len(trace)].op = "terraformer_import"
    /\ LET dest == <<safe_name(trace[Len(trace)].rg), trace[Len(trace)].arg>>
       IN  /\ (dest \o <<"init_azurerm_out.txt">>) \in DOMAIN fs_at_entry.files
           /\ (dest \o <<"rg", "res.tf">>) \in DOMAIN fs_at_entry.files
           /\ (dest \o <<"rg", "res.tf">>) \notin DOMAIN fs.files

(***************************************************************************)
(* C10  Fatal errors stop the run before any group work.  When az_login,   *)
(* set_subscription or list_resource_groups fails, that is the last thing  *)
(* the run does: it exits with a non-zero status and has made no export,   *)
(* generator, validator or consolidator call.                              *)
(***************************************************************************)
PerGroupOps == {"process_resource_group", "export_arm_template", "terraformer_import",
                "terraform_init_ok", "consolidate_tf"}

FatalErrorsStopRun ==
    \A p \in 1..Len(trace) :
        (trace[p].op \in {"az_login", "set_subscription", "list_resource_groups"}
            /\ ~trace[p].ok) =>
            /\ p = Len(trace)
            /\ pc = "exit"
            /\ exit_status # 0
            /\ \A q \in 1..Len(trace) : trace[q].op \notin PerGroupOps

\* the listing failed on a run over an output root that an earlier run filled
WitnessFatalErrorsStopRun ==
    /\ pc = "exit"
    /\ trace # << >>
    /\ trace[Len(trace)] = Ev("list_resource_groups", "", "", FALSE)
    /\ processed > 0

(***************************************************************************)
(* C11  Per-group isolation.  Any two distinct resource groups of a        *)
(* listing have different folders, and a call of process_resource_group    *)
(* for one group creates, overwrites or removes no file in the folder of   *)
(* another group of the listing.                                           *)
(***************************************************************************)
\* the files of tree t at or below directory d
FilesUnder(t, d) == [f \in {g \in DOMAIN t.files : IsPrefix(d, g)} |-> t.files[f]]

GroupsAreIsolated ==
    InCall =>
        LET c == Call
        IN  \A k \in 1..Len(rgs) :
                rgs[k] # c[1].rg =>
                    /\ <<safe_name(rgs[k])>> # Folder(c)
                    /\ FilesUnder(fs, <<safe_name(rgs[k])>>)
                         = FilesUnder(fs_at_entry, <<safe_name(rgs[k])>>)

(***************************************************************************)
(* C12  Exit status.  A run whose login, subscription selection and        *)
(* listing succeeded ends with exit status zero, after                     *)
(* process_resource_group returned for every listed group.                 *)
(***************************************************************************)
ExitsZeroAfterListing ==
    (pc = "exit" /\ Listed) =>
        /\ exit_status = 0
        /\ \A k \in 1..Len(rgs) :
               \E p \in 1..Len(trace) : trace[p].op = "return" /\ trace[p].rg = rgs[k]

(***************************************************************************)
(* C13  Zero resource groups.  When the listing is empty the run prints    *)
(* that none were found and ends: it made no export, generator, validator  *)
(* or consolidator call, and no step of main up to and including the       *)
(* listing creates, changes or removes anything below subs_folder, so no   *)
(* per-group directory was created.                                        *)
(***************************************************************************)
NoneFoundText == "No resource groups found"

NoneFoundEndsRun ==
    (Listed /\ rgs = << >>) =>
        /\ pc = "exit"
        /\ exit_status = 0
        /\ trace[Len(trace)] = Ev("print", "", NoneFoundText, TRUE)
        /\ \A q \in 1..Len(trace) : trace[q].op \notin PerGroupOps
        /\ processed = 0 => (fs.dirs = {<< >>} /\ DOMAIN fs.files = {})

DriverCreatesNoGroupFolder ==
    pc \in {"az_login", "set_subscription", "which_terraformer", "list_resource_groups"} =>
        /\ fs'.files = fs.files
        /\ fs'.dirs \ {<< >>} = fs.dirs \ {<< >>}

ZeroGroupsNoWork == []NoneFoundEndsRun /\ [][DriverCreatesNoGroupFolder]_vars

\* an empty listing, on a run over an output root that holds an earlier
\* run's folders
WitnessZeroGroupsNoWork ==
    /\ pc = "exit"
    /\ Listed
    /\ rgs = << >>
    /\ processed > 0
    /\ fs.dirs # {<< >>}

(***************************************************************************)
(* C14  Validation gated on generation.  The validator is invoked for a    *)
(* strategy only directly after that strategy's generator returned         *)
(* success, in the same call and on the same directory.  After a failed    *)
(* generator the call goes on to the next strategy, or to its end, without *)
(* a validator call, and the strategy's directory holds no init log.       *)
(***************************************************************************)
\* the label of a strategy directory: "terraform_azurerm" -> "azurerm"
StrategyLabel(d) == SubSeq(d, Len("terraform_") + 1, Len(d))

\* a validator call: one that returned, or one that raised
ValidatorOps == {"terraform_init_ok", "raise"}

ValidatorOnlyAfterGenerator ==
    /\ \A p \in 1..Len(trace) :
           /\ trace[p].op \in ValidatorOps =>
                  /\ p > 1
                  /\ trace[p - 1] = Ev("terraformer_import", trace[p].rg, trace[p].arg, TRUE)
           /\ (trace[p].op = "terraformer_import" /\ ~trace[p].ok /\ p < Len(trace)) =>
                  trace[p + 1] = IF trace[p].arg = Strategies[1]
                                 THEN Ev("terraformer_import", trace[p].rg, Strategies[2],
                                         trace[p + 1].ok)
                                 ELSE Ev("print", trace[p].rg, "No working Terraform generated", TRUE)
    /\ InCall =>
           LET c == Call
           IN  \A k \in 1..Len(Strategies) :
                   GenFailed(c, Strategies[k]) =>
                       /\ ~Invoked(c, "terraform_init_ok", Strategies[k])
                       /\ ~Invoked(c, "raise", Strategies[k])
                       /\ FilesBelow(fs, Folder(c) \o <<Strategies[k]>>)
                            \cap InitLogs(StrategyLabel(Strategies[k])) = {}

\* the azurerm generator failed over a directory that held the init logs of
\* an earlier run, and azapi was generated and validated
WitnessValidatorOnlyAfterGenerator ==
    /\ InCall
    /\ Returned(Call)
    /\ GenFailed(Call, Strategies[1])
    /\ ValOk(Call, Strategies[2])
    /\ InitLogs("azurerm") \subseteq FilesIn(fs_at_entry, Folder(Call) \o <<Strategies[1]>>)

(***************************************************************************)
(* C15  Bounded sequential pipeline.  Within one call the tool calls are   *)
(* made in the order export, azurerm generator, azurerm validator, azapi   *)
(* generator, azapi validator, consolidator, each at most once and the     *)
(* export, which comes first, exactly once; every step of the call moves   *)
(* forward in that order, so the call ends after at most six tool calls.   *)
(* The loop enters the listed groups in listing order, one call after the  *)
(* other is over, and a run that prints Done has entered every listed      *)
(* group exactly once.                                                     *)
(***************************************************************************)
\* the place of a tool call in the order of the pipeline, 0 for other events
ToolRank(e) ==
    IF e.op = "export_arm_template" THEN 1
    ELSE IF e.op = "terraformer_import" THEN (IF e.arg = Strategies[1] THEN 2 ELSE 4)
    ELSE IF e.op \in ValidatorOps THEN (IF e.arg = Strategies[1] THEN 3 ELSE 5)
    ELSE IF e.op = "consolidate_tf" THEN 6
    ELSE 0

\* the place of a position of process_resource_group in the pipeline
PcRank(at) ==
    IF at = "export" THEN 1
    ELSE IF at = "import_azurerm" THEN 2
    ELSE IF at = "init_azurerm" THEN 3
    ELSE IF at = "import_azapi" THEN 4
    ELSE IF at = "init_azapi" THEN 5
    ELSE IF at = "finish" THEN 6
    ELSE 7

\* the process_resource_group entries of the run, in the order they happened
Entries == SelectSeq(trace, LAMBDA e : e.op = "process_resource_group")

PipelineInOrder ==
    /\ InCall =>
           LET c == Call
           IN  /\ \A p, q \in 1..Len(c) :
                      (p < q /\ ToolRank(c[p]) > 0 /\ ToolRank(c[q]) > 0) =>
                          ToolRank(c[p]) < ToolRank(c[q])
               /\ Len(c) > 1 => c[2].op = "export_arm_template"
    /\ LET entries == Entries
       IN  /\ Len(entries) <= Len(rgs)
           /\ \A k \in 1..Len(entries) : entries[k].rg = rgs[k]
           /\ pc = "for" => i = Len(entries) + 1
           /\ In(trace, Ev("print", "", "Done", TRUE)) => Len(entries) = Len(rgs)
    /\ \A p \in 2..Len(trace) :
           IF trace[p].op = "process_resource_group"
           THEN trace[p - 1].op \in {"return", "list_resource_groups"}
           ELSE trace[p].rg # "" =>
                    (trace[p - 1].rg = trace[p].rg /\ trace[p - 1].op # "return")

PipelineMovesForward ==
    PcRank(pc) < 7 => PcRank(pc') > PcRank(pc)

BoundedSequentialPipeline == []PipelineInOrder /\ [][PipelineMovesForward]_vars

\* a run over two groups ends with Done after the second group went through
\* all six tool calls
WitnessBoundedSequentialPipeline ==
    /\ pc = "exit"
    /\ Len(rgs) = 2
    /\ trace[Len(trace)] = Ev("print", "", "Done", TRUE)
    /\ trace[Len(trace) - 2].op = "consolidate_tf"
    /\ trace[Len(trace) - 3] = Ev("terraform_init_ok", rgs[2], Strategies[2], TRUE)
    /\ trace[Len(trace) - 5] = Ev("terraform_init_ok", rgs[2], Strategies[1], FALSE)

(***************************************************************************)
(* C16  Validator result.  A call of terraform_init_ok that returns        *)
(* returns success exactly when the candidate directory existed and        *)
(* `terraform init` ran there and exited with status zero.  When the       *)
(* directory does not exist the call returns failure and changes nothing:  *)
(* no init log is written.  When it exists the call writes the two init    *)
(* logs inside the directory, whatever the exit status, and changes        *)
(* nothing else.                                                           *)
(***************************************************************************)
ValidatorResult ==
    (Len(trace) = 1 /\ trace[1].op = "terraform_init_ok") =>
        LET e          == trace[1]
            path       == rg_folder \o <<e.arg>>
            stdout_log == path \o <<"init_" \o StrategyLabel(e.arg) \o "_out.txt">>
            stderr_log == path \o <<"init_" \o StrategyLabel(e.arg) \o "_err.txt">>
            existed    == Exists(fs_at_entry, path)
        IN  /\ e.ok <=> (existed /\ fs.files[stdout_log] = ToolStdout(0))
            /\ e.ok <=> chosen = e.arg
            /\ ~existed => (~e.ok /\ fs = fs_at_entry)
            /\ existed =>
                   /\ {stdout_log, stderr_log} \subseteq DOMAIN fs.files
                   /\ \E rc \in ExitCodes :
                          /\ fs.files[stdout_log] = ToolStdout(rc)
                          /\ fs.files[stderr_log] = ToolStderr(rc)
                   /\ fs.dirs = fs_at_entry.dirs
                   /\ DOMAIN fs.files = DOMAIN fs_at_entry.files \cup {stdout_log, stderr_log}
                   /\ \A f \in DOMAIN fs_at_entry.files \ {stdout_log, stderr_log} :
                          fs.files[f] = fs_at_entry.files[f]

\* the validator returned failure for a directory that does not exist
WitnessValidatorResult ==
    /\ Len(trace) = 1
    /\ trace[1] = Ev("terraform_init_ok", "rg", Strategies[2], FALSE)
    /\ ~Exists(fs_at_entry, rg_folder \o <<Strategies[2]>>)
    /\ fs = fs_at_entry

(***************************************************************************)
(* C17  Session ordering.  The subscription is set only after a successful *)
(* login and at most once in a run; the listing is made only after the     *)
(* subscription was set, successfully and exactly once; every export,      *)
(* generator, validator and consolidator call comes after the successful   *)
(* listing and after the one set_subscription, which is never repeated     *)
(* while the groups are processed.                                         *)
(***************************************************************************)
Positions(op) == {p \in 1..Len(trace) : trace[p].op = op}

SessionOrdering ==
    LET logins   == Positions("az_login")
        settings == Positions("set_subscription")
        listings == Positions("list_resource_groups")
    IN  /\ Cardinality(settings) <= 1
        /\ \A s \in settings : \E a \in logins : a < s /\ trace[a].ok
        /\ \A l \in listings :
               /\ Cardinality(settings) = 1
               /\ \A s \in settings : s < l /\ trace[s].ok
        /\ \A g \in 1..Len(trace) :
               trace[g].op \in PerGroupOps =>
                   /\ \E l \in listings : l < g /\ trace[l].ok
                   /\ settings # {}
                   /\ \A s \in settings : s < g

\* two groups were exported in a finished run
WitnessSessionOrdering ==
    /\ pc = "exit"
    /\ exit_status = 0
    /\ Len(rgs) = 2
    /\ \A k \in 1..2 : In(trace, Ev("export_arm_template", rgs[k], "", TRUE))

(***************************************************************************)
(* C18  template.json is written once and left alone.  In a call whose     *)
(* export succeeded there is exactly one export call, it precedes every    *)
(* generator call of the call, template.json is in the group's folder with *)
(* the exported text from then on, and no later step of the call changes   *)
(* or removes it.                                                          *)
(***************************************************************************)
TemplatePresent ==
    InCall =>
        LET c == Call
        IN  ExportOk(c) =>
                /\ Cardinality({p \in 1..Len(c) : c[p].op = "export_arm_template"}) = 1
                /\ \A p, q \in 1..Len(c) :
                       (c[p].op = "export_arm_template" /\ c[q].op = "terraformer_import")
                           => p < q
                /\ Folder(c) \o <<"template.json">> \in DOMAIN fs.files
                /\ fs.files[Folder(c) \o <<"template.json">>] \in ExportOutputs

TemplateLeftAlone ==
    (PcRank(pc) > 1 /\ PcRank(pc) < 7) =>
        /\ arm_out \in DOMAIN fs.files
        /\ arm_out \in DOMAIN fs'.files
        /\ fs'.files[arm_out] = fs.files[arm_out]

TemplateWrittenOnce == []TemplatePresent /\ [][TemplateLeftAlone]_vars

\* both generators ran and the azapi directory was consolidated over a
\* folder that already held a template.json
WitnessTemplateWrittenOnce ==
    /\ InCall
    /\ Returned(Call)
    /\ ExportOk(Call)
    /\ GenOk(Call, Strategies[1])
    /\ chosen = Strategies[2]
    /\ Folder(Call) \o <<"template.json">> \in DOMAIN fs_at_entry.files
    /\ Folder(Call) \o <<"template.json">> \in DOMAIN fs.files

(***************************************************************************)
(* C19  Export failure leaves existing output untouched.  When the export  *)
(* fails, the call changes nothing but making sure the group's folder      *)
(* exists: whatever was in the tree when the call began is still there,    *)
(* unchanged, and nothing else was added.                                  *)
(***************************************************************************)
ExportFailureKeepsOutput ==
    InCall =>
        LET c == Call
        IN  ExportFailed(c) => fs = ensure_dir(fs_at_entry, Folder(c))

\* the export failed over a folder holding the output of an earlier run
WitnessExportFailureKeepsOutput ==
    /\ InCall
    /\ Returned(Call)
    /\ ExportFailed(Call)
    /\ Folder(Call) \o <<"main.tf">> \in DOMAIN fs_at_entry.files
    /\ Folder(Call) \o <<"template.json">> \in DOMAIN fs_at_entry.files
    /\ Exists(fs_at_entry, Folder(Call) \o <<Strategies[1]>>)

(***************************************************************************)
(* C20  A strategy that is not attempted is not touched.  As long as a     *)
(* call has not invoked a strategy's generator, the strategy's directory   *)
(* and its two generation logs are as they were when the call began:       *)
(* neither created, reset nor written.  The azapi generator is not invoked *)
(* when azurerm is chosen or terraformer is unavailable.  In a call that   *)
(* began without the group's folder, a strategy directory exists exactly   *)
(* when that strategy's generator was invoked.                             *)
(***************************************************************************)
\* what tree t holds at or below directory d
TreeUnder(t, d) == [dirs |-> {e \in t.dirs : IsPrefix(d, e)}, files |-> FilesUnder(t, d)]

\* the generation logs of strategy directory d in folder g, with their text
GenLogsOf(t, g, d) ==
    LET logs == {g \o <<n>> : n \in GenLogs(StrategyLabel(d))}
    IN  [f \in logs \cap DOMAIN t.files |-> t.files[f]]

UnattemptedStrategyUntouched ==
    InCall =>
        LET c == Call
            g == Folder(c)
        IN  /\ \A k \in 1..Len(Strategies) :
                   LET d == Strategies[k]
                   IN  /\ ~Invoked(c, "terraformer_import", d) =>
                              /\ TreeUnder(fs, g \o <<d>>) = TreeUnder(fs_at_entry, g \o <<d>>)
                              /\ GenLogsOf(fs, g, d) = GenLogsOf(fs_at_entry, g, d)
                       /\ FreshFolder(c) =>
                              (Exists(fs, g \o <<d>>) <=> Invoked(c, "terraformer_import", d))
            /\ (chosen = Strategies[1] \/ ~has_terraformer) =>
                   ~Invoked(c, "terraformer_import", Strategies[2])

\* azurerm was chosen and the azapi directory of an earlier run is still there
WitnessUnattemptedStrategyUntouched ==
    /\ InCall
    /\ Returned(Call)
    /\ chosen = Strategies[1]
    /\ Exists(fs_at_entry, Folder(Call) \o <<Strategies[2]>>)
    /\ Folder(Call) \o <<"tf_azapi_out.log">> \in DOMAIN fs.files

====
